---- MODULE Spec2Model ----
\* Room / session lifecycle manager and event router of the collaborative
\* whiteboard server (src/server.js), modelled as a state machine: one action
\* per socket.io event handler, each handler running to completion.
EXTENDS Integers, Sequences, FiniteSets, TLC

\* ------------------------------------------------------------------ bounds
\* Number of client connections (socket ids 1..NumConns).
NumConns == 3
\* settings.maxParticipants of a new room.  server.js line 74 sets 50; the
\* model scales the cap down so that a full room is reachable with NumConns
\* connections.  Every use of the cap in the code reads the setting.
maxParticipants == 2
\* Pending "session-started" timers (setTimeout of start-session) modelled
\* at a time.
MaxTimers == 1
\* Number of events (handler runs and timer callbacks) of one explored run.
MaxSteps == 5
\* Capacity of the flat drawing log and of each per-slide drawing log.
MaxLog == 2
\* Largest slide index / deck length a client sends.
MaxSlide == 2

Conns == 1..NumConns
RoomIds == {"R1", "R2"}
\* A missing field of a payload (undefined / empty string: falsy in JS).
Missing == ""
Usernames == {"u"}

\* ROOM_STATES, server.js lines 21-25 (ENDED is never assigned by the code).
LOBBY == "lobby"
ACTIVE == "active"

\* rooms.get(id) of an id that is not in the Map.
NoRoom == [absent |-> TRUE]
\* connectedUsers.get(id) of an id that is not in the Map.
NoUser == [roomId |-> Missing, username |-> Missing, role |-> Missing]

VARIABLES
    rooms,          \* the Map rooms: room id -> room object, or NoRoom
    connectedUsers, \* the Map connectedUsers: socket id -> binding, or NoUser
    sock,           \* per socket: the properties the handlers attach to it,
                    \* its socket.io groups, and whether it is connected
    timers,         \* pending setTimeout callbacks of start-session
    out,            \* the messages emitted by the last handler run:
                    \* a set of <<recipient, event name>>
    trip,           \* observer of one join / toggle-ready / leave sequence
    steps           \* number of events handled so far

vars == <<rooms, connectedUsers, sock, timers, out, trip, steps>>

\* ------------------------------------------------------------ helpers
Live(r) == rooms[r] # NoRoom
Members(r) == DOMAIN rooms[r].participants
Hosts(r) == {c \in Members(r) : rooms[r].participants[c].role = "host"}

\* io.to(r): every connected socket that is in the socket.io group r.
ioTo(S, r) == {m \in Conns : S[m].status = "connected" /\ r \in S[m].groups}
\* socket.to(r): the same, without the sending socket.
socketTo(S, c, r) == ioTo(S, r) \ {c}
Emit(recipients, name) == {<<m, name>> : m \in recipients}

\* Map.set / Map.delete on a directory (a function with a dynamic domain).
MapSet(f, k, v) == [x \in (DOMAIN f) \cup {k} |-> IF x = k THEN v ELSE f[x]]
MapDelete(f, k) == [x \in (DOMAIN f) \ {k} |-> f[x]]

\* new Map()
EmptyMap == [x \in {} |-> <<>>]

\* The room object literal of create-room.
NewRoom(c, username) ==
    [ host |-> c,
      state |-> LOBBY,
      participants |-> (c :> [role |-> "host", ready |-> TRUE, username |-> username]),
      drawings |-> <<>>,
      backgroundImage |-> Missing,
      slides |-> <<>>,
      currentSlide |-> 0,
      slideDrawings |-> EmptyMap,
      settings |-> [ hostCanClear |-> TRUE,
                     hostCanMute |-> TRUE,
                     participantsCanDraw |-> TRUE,
                     participantsCanChat |-> TRUE,
                     maxParticipants |-> maxParticipants ] ]

\* socket.join(roomId); socket.roomId = ...; socket.username = ...; socket.role = ...
Bind(S, c, r, username, role) ==
    [S EXCEPT ![c] = [@ EXCEPT !.groups = @ \cup {r},
                               !.roomId = r,
                               !.username = username,
                               !.role = role,
                               !.leaves = "none"]]

\* A room object that leaves the registry stays reachable from the timer
\* closures that captured it: they keep the directory it had at that moment.
Freeze(T, r, R) ==
    {IF t.rid = r /\ ~t.dead
        THEN [t EXCEPT !.dead = TRUE, !.parts = DOMAIN R.participants,
                       !.state = R.state]
        ELSE t : t \in T}

\* ------------------------------------------------------------------ Init
Init ==
    /\ rooms = [r \in RoomIds |-> NoRoom]
    /\ connectedUsers = [c \in Conns |-> NoUser]
    /\ sock = [c \in Conns |-> [status |-> "connected", roomId |-> Missing,
                                username |-> Missing, role |-> Missing,
                                groups |-> {}, leaves |-> "none"]]
    /\ timers = {}
    /\ out = {}
    /\ trip = [stage |-> "idle"]
    /\ steps = 0

Connected(c) == sock[c].status = "connected"

\* create-room without the rooms.has(roomId) check: a second create overwrites.
CreateRoomOverwrite(c, roomId, username) ==
    /\ Connected(c)
    /\ IF roomId = Missing \/ username = Missing
       THEN /\ out' = {<<c, "error">>}
            /\ UNCHANGED <<rooms, connectedUsers, sock, timers>>
       ELSE /\ rooms' = [rooms EXCEPT ![roomId] = NewRoom(c, username)]
            /\ sock' = Bind(sock, c, roomId, username, "host")
            /\ connectedUsers' = [connectedUsers EXCEPT ![c] =
                    [roomId |-> roomId, username |-> username, role |-> "host"]]
            /\ out' = {<<c, "room-created">>}
            /\ UNCHANGED timers

\* ------------------------------------------------------------ create-room
CreateRoom(c, roomId, username) ==
    /\ Connected(c)
    /\ IF roomId = Missing \/ username = Missing
       THEN /\ out' = {<<c, "error">>}
            /\ UNCHANGED <<rooms, connectedUsers, sock, timers>>
       ELSE IF Live(roomId)
       THEN /\ out' = {<<c, "room-exists">>}
            /\ UNCHANGED <<rooms, connectedUsers, sock, timers>>
       ELSE /\ rooms' = [rooms EXCEPT ![roomId] = NewRoom(c, username)]
            /\ sock' = Bind(sock, c, roomId, username, "host")
            /\ connectedUsers' = [connectedUsers EXCEPT ![c] =
                    [roomId |-> roomId, username |-> username, role |-> "host"]]
            /\ out' = {<<c, "room-created">>}
            /\ UNCHANGED timers

\* join-room without the maxParticipants check.
JoinRoomNoCap(c, roomId, username) ==
    /\ Connected(c)
    /\ IF roomId = Missing \/ ~Live(roomId)
       THEN /\ out' = {<<c, "room-not-found">>}
            /\ UNCHANGED <<rooms, connectedUsers, sock, timers>>
       ELSE /\ rooms' = [rooms EXCEPT ![roomId].participants =
                    MapSet(@, c, [role |-> "participant", ready |-> FALSE,
                                  username |-> username])]
            /\ sock' = Bind(sock, c, roomId, username, "participant")
            /\ connectedUsers' = [connectedUsers EXCEPT ![c] =
                    [roomId |-> roomId, username |-> username, role |-> "participant"]]
            /\ out' = {<<c, "room-joined">>} \cup Emit(ioTo(sock', roomId), "lobby-updated")
            /\ UNCHANGED timers

\* -------------------------------------------------------------- join-room
JoinRoom(c, roomId, username) ==
    /\ Connected(c)
    /\ IF roomId = Missing \/ ~Live(roomId)
       THEN /\ out' = {<<c, "room-not-found">>}
            /\ UNCHANGED <<rooms, connectedUsers, sock, timers>>
       ELSE IF Cardinality(Members(roomId)) >= rooms[roomId].settings.maxParticipants
       THEN /\ out' = {<<c, "room-full">>}
            /\ UNCHANGED <<rooms, connectedUsers, sock, timers>>
       ELSE /\ rooms' = [rooms EXCEPT ![roomId].participants =
                    MapSet(@, c, [role |-> "participant", ready |-> FALSE,
                                  username |-> username])]
            /\ sock' = Bind(sock, c, roomId, username, "participant")
            /\ connectedUsers' = [connectedUsers EXCEPT ![c] =
                    [roomId |-> roomId, username |-> username, role |-> "participant"]]
            /\ out' = {<<c, "room-joined">>} \cup Emit(ioTo(sock', roomId), "lobby-updated")
            /\ UNCHANGED timers

\* ----------------------------------------------------------- toggle-ready
\* The handler without its test of socket.role.
ToggleReadyAnyRole(c, ready) ==
    /\ Connected(c)
    /\ IF sock[c].roomId = Missing
       THEN /\ out' = {}
            /\ UNCHANGED rooms
       ELSE IF Live(sock[c].roomId) /\ c \in Members(sock[c].roomId)
       THEN /\ rooms' = [rooms EXCEPT ![sock[c].roomId].participants[c].ready = ready]
            /\ out' = Emit(ioTo(sock, sock[c].roomId), "lobby-updated")
       ELSE /\ out' = {}
            /\ UNCHANGED rooms
    /\ UNCHANGED <<connectedUsers, sock, timers>>

ToggleReady(c, ready) ==
    /\ Connected(c)
    /\ IF sock[c].roomId = Missing \/ sock[c].role # "participant"
       THEN /\ out' = {}
            /\ UNCHANGED rooms
       ELSE IF Live(sock[c].roomId) /\ c \in Members(sock[c].roomId)
       THEN /\ rooms' = [rooms EXCEPT ![sock[c].roomId].participants[c].ready = ready]
            /\ out' = Emit(ioTo(sock, sock[c].roomId), "lobby-updated")
       ELSE /\ out' = {}
            /\ UNCHANGED rooms
    /\ UNCHANGED <<connectedUsers, sock, timers>>

\* ---------------------------------------------------------- start-session
\* The handler's own guard: socket.roomId is set and socket.role is 'host'.
IsHostSocket(c) == sock[c].roomId # Missing /\ sock[c].role = "host"

\* The handle setTimeout gives the next timer: the lowest number that no
\* pending timer has.
NextTimer == CHOOSE k \in 1..MaxTimers :
                /\ \A t \in timers : t.id # k
                /\ \A j \in 1..(k - 1) : \E t \in timers : t.id = j

StartSession(c) ==
    /\ Connected(c)
    /\ Cardinality(timers) < MaxTimers
    /\ IF IsHostSocket(c) /\ Live(sock[c].roomId) /\ rooms[sock[c].roomId].state = LOBBY
       THEN /\ rooms' = [rooms EXCEPT ![sock[c].roomId].state = ACTIVE]
            /\ out' = Emit(ioTo(sock, sock[c].roomId), "session-starting")
            /\ timers' = timers \cup
                    {[sock |-> c, rid |-> sock[c].roomId, dead |-> FALSE, parts |-> {},
                      state |-> ACTIVE, id |-> NextTimer]}
       ELSE /\ out' = {}
            /\ UNCHANGED <<rooms, timers>>
    /\ UNCHANGED <<connectedUsers, sock>>

\* The payload of session-started, read from the captured room object when
\* the callback fires: its state and the members of its directory.
StartedData(t) ==
    [roomState |-> IF t.dead THEN t.state ELSE rooms[t.rid].state,
     participants |-> IF t.dead THEN t.parts ELSE Members(t.rid)]

\* The setTimeout callback of start-session: it reads socket.roomId and the
\* captured room object when it fires.  Its messages carry the payload:
\* <<recipient, "session-started", payload>>.
SessionStarted(t) ==
    /\ t \in timers
    /\ timers' = timers \ {t}
    /\ out' = {<<m, "session-started", StartedData(t)>> :
                    m \in ioTo(sock, sock[t.sock].roomId)}
    /\ UNCHANGED <<rooms, connectedUsers, sock>>

\* -------------------------------------------- toggle-participant-drawing
\* The handler switching the permission off instead of negating it.
ToggleParticipantDrawingOff(c) ==
    /\ Connected(c)
    /\ IF IsHostSocket(c) /\ Live(sock[c].roomId)
       THEN /\ rooms' = [rooms EXCEPT ![sock[c].roomId].settings.participantsCanDraw = FALSE]
            /\ out' = Emit(ioTo(sock, sock[c].roomId), "permissions-updated")
       ELSE /\ out' = {}
            /\ UNCHANGED rooms
    /\ UNCHANGED <<connectedUsers, sock, timers>>

ToggleParticipantDrawing(c) ==
    /\ Connected(c)
    /\ IF IsHostSocket(c) /\ Live(sock[c].roomId)
       THEN /\ rooms' = [rooms EXCEPT ![sock[c].roomId].settings.participantsCanDraw = ~@]
            /\ out' = Emit(ioTo(sock, sock[c].roomId), "permissions-updated")
       ELSE /\ out' = {}
            /\ UNCHANGED rooms
    /\ UNCHANGED <<connectedUsers, sock, timers>>

\* ----------------------------------------------- toggle-participant-chat
ToggleParticipantChat(c) ==
    /\ Connected(c)
    /\ IF IsHostSocket(c) /\ Live(sock[c].roomId)
       THEN /\ rooms' = [rooms EXCEPT ![sock[c].roomId].settings.participantsCanChat = ~@]
            /\ out' = Emit(ioTo(sock, sock[c].roomId), "permissions-updated")
       ELSE /\ out' = {}
            /\ UNCHANGED rooms
    /\ UNCHANGED <<connectedUsers, sock, timers>>

\* -------------------------------------------------------------- leaveRoom
\* The function leaveRoom(socket), as four results computed from the state
\* before the call; S is the socket table whose groups the broadcasts use.
LeaveBound(c) == connectedUsers[c] # NoUser /\ Live(connectedUsers[c].roomId)

\* The directory of the room after room.participants.delete(socket.id).
LeaveDirectory(c) == MapDelete(rooms[connectedUsers[c].roomId].participants, c)

\* leaveRoom deleting the room whoever leaves.
LeaveDeletesAlways(c) == TRUE

\* Whether leaveRoom removes the room from the registry.
LeaveDeletes(c) ==
    sock[c].role = "host" \/ DOMAIN LeaveDirectory(c) = {}

LeaveRooms(c) ==
    IF ~LeaveBound(c) THEN rooms
    ELSE IF LeaveDeletes(c)
    THEN [rooms EXCEPT ![connectedUsers[c].roomId] = NoRoom]
    ELSE [rooms EXCEPT ![connectedUsers[c].roomId].participants = LeaveDirectory(c)]

\* leaveRoom cancelling the pending announcements of the room it deletes.
LeaveTimersCancel(c) ==
    IF LeaveBound(c) /\ LeaveDeletes(c)
    THEN {t \in timers : t.rid # connectedUsers[c].roomId \/ t.dead}
    ELSE timers

LeaveTimers(c) ==
    IF LeaveBound(c) /\ LeaveDeletes(c)
    THEN Freeze(timers, connectedUsers[c].roomId,
                [rooms[connectedUsers[c].roomId] EXCEPT !.participants = LeaveDirectory(c)])
    ELSE timers

LeaveOut(S, c) ==
    IF ~LeaveBound(c) THEN {}
    ELSE IF sock[c].role = "host"
    THEN Emit(ioTo(S, connectedUsers[c].roomId), "room-ended")
    ELSE Emit(socketTo(S, c, connectedUsers[c].roomId), "lobby-updated")
         \cup (IF rooms[connectedUsers[c].roomId].state = ACTIVE
               THEN Emit(socketTo(S, c, connectedUsers[c].roomId), "participant-left-session")
               ELSE Emit(socketTo(S, c, connectedUsers[c].roomId), "user-left"))

\* leaveRoom without connectedUsers.delete(socket.id).
LeaveUsersKeep(c) == connectedUsers

LeaveUsers(c) == [connectedUsers EXCEPT ![c] = NoUser]

\* Observer: how often the leave path ran for c since c last created or
\* joined a room.
Left(S, c) == [S EXCEPT ![c].leaves = IF @ = "none" THEN "once" ELSE "again"]

\* socket.io's teardown of a socket, done before the 'disconnect' handlers
\* run: the socket leaves all its groups and io.sockets.sockets.
Closed(S, c, status) == [S EXCEPT ![c].status = status, ![c].groups = {}]

\* ------------------------------------------------------------- leave-room
LeaveRoom(c) ==
    /\ Connected(c)
    /\ rooms' = LeaveRooms(c)
    /\ timers' = LeaveTimers(c)
    /\ connectedUsers' = LeaveUsers(c)
    /\ out' = LeaveOut(sock, c)
    /\ sock' = Left(sock, c)

\* ------------------------------------------------------------- disconnect
\* The transport reports the connection closed.  For a socket the server
\* terminated itself (kick) the leave path already ran once; the handler is
\* modelled as running again when the transport reports the close.
Disconnect(c) ==
    /\ sock[c].status \in {"connected", "terminated"}
    /\ rooms' = LeaveRooms(c)
    /\ timers' = LeaveTimers(c)
    /\ connectedUsers' = LeaveUsers(c)
    /\ out' = LeaveOut(Closed(sock, c, "closed"), c)
    /\ sock' = Left(Closed(sock, c, "closed"), c)

\* ------------------------------------------------------- kick-participant
\* targetSocket.disconnect() runs the target's 'disconnect' handler, and so
\* leaveRoom(targetSocket), inside the kick handler.
KickParticipant(c, target) ==
    /\ Connected(c)
    /\ IF IsHostSocket(c) /\ sock[target].status = "connected"
          /\ sock[target].roomId = sock[c].roomId
       THEN /\ rooms' = LeaveRooms(target)
            /\ timers' = LeaveTimers(target)
            /\ connectedUsers' = LeaveUsers(target)
            /\ out' = {<<target, "kicked">>}
                      \cup LeaveOut(Closed(sock, target, "terminated"), target)
            /\ sock' = Left(Closed(sock, target, "terminated"), target)
       ELSE /\ out' = {}
            /\ UNCHANGED <<rooms, timers, connectedUsers, sock>>

\* ---------------------------------------------------------------- drawing
\* `slide_${index}`, the key of a slide's log in room.slideDrawings.
SlideKey(i) == <<"slide_", i>>

\* The drawing handler without its state gate.
SessionAny(r) == TRUE

\* room.state !== ROOM_STATES.ACTIVE is the drawing handler's state gate.
SessionActive(r) == rooms[r].state = ACTIVE

\* canDraw of the drawing handler.
CanDraw(r, c) ==
    rooms[r].participants[c].role = "host" \/ rooms[r].settings.participantsCanDraw

\* drawingData: the payload with the sender's attribution.
DrawingData(c, type, idx) ==
    [userId |-> c, role |-> sock[c].role, type |-> type, slideIndex |-> idx]

\* The per-slide store appending a record for every type of drawing event.
StoreSlideDrawingAnyType(sd, c, type, idx) ==
    IF idx = {} THEN sd
    ELSE LET key == SlideKey(CHOOSE i \in idx : TRUE)
             had == IF key \in DOMAIN sd THEN sd[key] ELSE <<>>
         IN  MapSet(sd, key, Append(had, DrawingData(c, type, idx)))

\* The per-slide logs after the handler's "store drawing data for slides".
\* idx is the payload's slideIndex: {} when the payload has none, {i} else.
StoreSlideDrawing(sd, c, type, idx) ==
    IF idx = {} THEN sd
    ELSE LET key == SlideKey(CHOOSE i \in idx : TRUE)
             had == IF key \in DOMAIN sd THEN sd[key] ELSE <<>>
         IN  MapSet(sd, key, IF type = "draw"
                             THEN Append(had, DrawingData(c, type, idx))
                             ELSE had)

\* The logs have room for one more record.
LogRoom(r, idx) ==
    /\ Len(rooms[r].drawings) < MaxLog
    /\ \A i \in idx : SlideKey(i) \in DOMAIN rooms[r].slideDrawings
                      => Len(rooms[r].slideDrawings[SlideKey(i)]) < MaxLog

Drawing(c, type, idx) ==
    /\ Connected(c)
    /\ IF /\ sock[c].roomId # Missing
          /\ Live(sock[c].roomId)
          /\ SessionActive(sock[c].roomId)
          /\ c \in Members(sock[c].roomId)
          /\ CanDraw(sock[c].roomId, c)
       THEN /\ type = "draw" => LogRoom(sock[c].roomId, idx)
            /\ rooms' = [rooms EXCEPT
                    ![sock[c].roomId].slideDrawings = StoreSlideDrawing(@, c, type, idx),
                    ![sock[c].roomId].drawings =
                        IF type = "draw" THEN Append(@, DrawingData(c, type, idx)) ELSE @]
            /\ out' = Emit(socketTo(sock, c, sock[c].roomId), "drawing")
       ELSE /\ out' = {}
            /\ UNCHANGED rooms
    /\ UNCHANGED <<connectedUsers, sock, timers>>

\* ---------------------------------------------------- background-image-set
BackgroundImageSet(c, imageData) ==
    /\ Connected(c)
    /\ IF sock[c].roomId # Missing /\ Live(sock[c].roomId)
       THEN /\ rooms' = [rooms EXCEPT ![sock[c].roomId].backgroundImage = imageData,
                                      ![sock[c].roomId].slides = <<imageData>>,
                                      ![sock[c].roomId].currentSlide = 0]
            /\ out' = Emit(socketTo(sock, c, sock[c].roomId), "background-image-set")
       ELSE /\ out' = {}
            /\ UNCHANGED rooms
    /\ UNCHANGED <<connectedUsers, sock, timers>>

\* ------------------------------------------------------ background-cleared
BackgroundCleared(c) ==
    /\ Connected(c)
    /\ IF sock[c].roomId # Missing /\ Live(sock[c].roomId)
       THEN /\ rooms' = [rooms EXCEPT ![sock[c].roomId].backgroundImage = Missing,
                                      ![sock[c].roomId].slides = <<>>,
                                      ![sock[c].roomId].currentSlide = 0,
                                      ![sock[c].roomId].slideDrawings = EmptyMap]
            /\ out' = Emit(socketTo(sock, c, sock[c].roomId), "background-cleared")
       ELSE /\ out' = {}
            /\ UNCHANGED rooms
    /\ UNCHANGED <<connectedUsers, sock, timers>>

\* ------------------------------------------------------------ file-shared
FileShared(c, type, data) ==
    /\ Connected(c)
    /\ IF sock[c].roomId # Missing /\ Live(sock[c].roomId)
       THEN /\ rooms' = IF type = "image"
                        THEN [rooms EXCEPT ![sock[c].roomId].backgroundImage = data,
                                           ![sock[c].roomId].slides = <<data>>,
                                           ![sock[c].roomId].currentSlide = 0]
                        ELSE rooms
            /\ out' = Emit(socketTo(sock, c, sock[c].roomId), "file-shared")
       ELSE /\ out' = {}
            /\ UNCHANGED rooms
    /\ UNCHANGED <<connectedUsers, sock, timers>>

\* ---------------------------------------------------- presentation-shared
\* data.currentSlide || 0: a missing index and the index 0 both give 0.
PresentationShared(c, slides, currentSlide) ==
    /\ Connected(c)
    /\ IF sock[c].roomId # Missing /\ Live(sock[c].roomId)
       THEN /\ rooms' = [rooms EXCEPT ![sock[c].roomId].slides = slides,
                                      ![sock[c].roomId].currentSlide = currentSlide,
                                      ![sock[c].roomId].slideDrawings = EmptyMap]
            /\ out' = Emit(socketTo(sock, c, sock[c].roomId), "presentation-shared")
       ELSE /\ out' = {}
            /\ UNCHANGED rooms
    /\ UNCHANGED <<connectedUsers, sock, timers>>

\* ---------------------------------------------------------- slide-changed
SlideChanged(c, slideIndex) ==
    /\ Connected(c)
    /\ IF sock[c].roomId # Missing /\ Live(sock[c].roomId)
       THEN /\ rooms' = [rooms EXCEPT ![sock[c].roomId].currentSlide = slideIndex]
            /\ out' = Emit(socketTo(sock, c, sock[c].roomId), "slide-changed")
       ELSE /\ out' = {}
            /\ UNCHANGED rooms
    /\ UNCHANGED <<connectedUsers, sock, timers>>

\* ----------------------------------------------------------- chat-message
\* The handler refusing chat outside an Active session.
ChatMessageActiveOnly(c) ==
    /\ Connected(c)
    /\ out' = IF /\ sock[c].roomId # Missing
                 /\ Live(sock[c].roomId)
                 /\ rooms[sock[c].roomId].state = ACTIVE
                 /\ c \in Members(sock[c].roomId)
                 /\ \/ rooms[sock[c].roomId].participants[c].role = "host"
                    \/ rooms[sock[c].roomId].settings.participantsCanChat
              THEN Emit(ioTo(sock, sock[c].roomId), "chat-message")
              ELSE {}
    /\ UNCHANGED <<rooms, connectedUsers, sock, timers>>

ChatMessage(c) ==
    /\ Connected(c)
    /\ out' = IF /\ sock[c].roomId # Missing
                 /\ Live(sock[c].roomId)
                 /\ c \in Members(sock[c].roomId)
                 /\ \/ rooms[sock[c].roomId].participants[c].role = "host"
                    \/ rooms[sock[c].roomId].settings.participantsCanChat
              THEN Emit(ioTo(sock, sock[c].roomId), "chat-message")
              ELSE {}
    /\ UNCHANGED <<rooms, connectedUsers, sock, timers>>

\* ---------------------------------------------------- file-upload-started
FileUploadStarted(c) ==
    /\ Connected(c)
    /\ out' = IF sock[c].roomId # Missing
              THEN Emit(socketTo(sock, c, sock[c].roomId), "file-upload-started")
              ELSE {}
    /\ UNCHANGED <<rooms, connectedUsers, sock, timers>>

\* ------------------------------------------------- slide-drawings-cleared
SlideDrawingsCleared(c, slideIndex) ==
    /\ Connected(c)
    /\ IF sock[c].roomId # Missing /\ Live(sock[c].roomId)
       THEN /\ rooms' = [rooms EXCEPT ![sock[c].roomId].slideDrawings =
                                            MapDelete(@, SlideKey(slideIndex))]
            /\ out' = Emit(socketTo(sock, c, sock[c].roomId), "slide-drawings-cleared")
       ELSE /\ out' = {}
            /\ UNCHANGED rooms
    /\ UNCHANGED <<connectedUsers, sock, timers>>

\* ------------------------------------------------------------- text-added
\* The stored record is {type: 'text', ...textData}: a type carried by the
\* payload replaces 'text'.  type is Missing when the payload has none.
TextData(c, type) ==
    [userId |-> c, role |-> sock[c].role,
     type |-> IF type = Missing THEN "text" ELSE type, slideIndex |-> {}]

TextAdded(c, type) ==
    /\ Connected(c)
    /\ IF /\ sock[c].roomId # Missing
          /\ Live(sock[c].roomId)
          /\ c \in Members(sock[c].roomId)
          /\ CanDraw(sock[c].roomId, c)
       THEN /\ Len(rooms[sock[c].roomId].drawings) < MaxLog
            /\ rooms' = [rooms EXCEPT ![sock[c].roomId].drawings =
                                            Append(@, TextData(c, type))]
            /\ out' = Emit(socketTo(sock, c, sock[c].roomId), "text-added")
       ELSE /\ out' = {}
            /\ UNCHANGED rooms
    /\ UNCHANGED <<connectedUsers, sock, timers>>

\* ----------------------------------------------------------- clear-canvas
\* The handler's permission test.
MayClear(c) ==
    sock[c].role = "host" \/ ~rooms[sock[c].roomId].settings.hostCanClear

ClearCanvas(c) ==
    /\ Connected(c)
    /\ IF sock[c].roomId # Missing /\ Live(sock[c].roomId) /\ MayClear(c)
       THEN /\ rooms' = [rooms EXCEPT
                    ![sock[c].roomId].drawings = <<>>,
                    ![sock[c].roomId].slideDrawings =
                        MapDelete(@, SlideKey(rooms[sock[c].roomId].currentSlide))]
            /\ out' = Emit(ioTo(sock, sock[c].roomId), "clear-canvas")
       ELSE /\ out' = {}
            /\ UNCHANGED rooms
    /\ UNCHANGED <<connectedUsers, sock, timers>>

\* ------------------------------------------------------- idle room reaper
\* The hourly setInterval callback.  old is the set of room ids whose room,
\* if there is one, was created more than 24 hours before this sweep.
Swept(old) == {r \in old : Live(r) /\ Members(r) = {}}

Reaper(old) ==
    /\ rooms' = [r \in RoomIds |-> IF r \in Swept(old) THEN NoRoom ELSE rooms[r]]
    /\ timers' = {IF t.rid \in Swept(old) /\ ~t.dead
                  THEN [t EXCEPT !.dead = TRUE, !.parts = {}, !.state = rooms[t.rid].state]
                  ELSE t : t \in timers}
    /\ out' = {}
    /\ UNCHANGED <<connectedUsers, sock>>

\* ------------------------------------------------------- specifications
\* One more event of the run.
Tick == steps < MaxSteps /\ steps' = steps + 1

\* A handler run outside an observed join / toggle-ready / leave sequence.
Step(A) == trip.stage = "idle" /\ A /\ Tick /\ UNCHANGED trip

\* The handlers of room membership: create, join, readiness, departure.
Membership(Ids) ==
    \/ \E c \in Conns, r \in Ids \cup {Missing}, u \in Usernames \cup {Missing} :
            Step(CreateRoom(c, r, u))
    \/ \E c \in Conns, r \in Ids \cup {Missing}, u \in Usernames : Step(JoinRoom(c, r, u))
    \/ \E c \in Conns, b \in BOOLEAN : Step(ToggleReady(c, b))
    \/ \E c, t \in Conns : Step(KickParticipant(c, t))
    \/ \E c \in Conns : Step(LeaveRoom(c))
    \/ \E c \in Conns : Step(Disconnect(c))

\* The session start and its delayed announcement.
Start ==
    \/ \E c \in Conns : Step(StartSession(c))
    \/ \E t \in timers : Step(SessionStarted(t))

\* The host's permission toggles.
Permissions ==
    \/ \E c \in Conns : Step(ToggleParticipantDrawing(c))
    \/ \E c \in Conns : Step(ToggleParticipantChat(c))

\* Room membership and lifecycle over two room ids.
NextLife == Membership(RoomIds) \/ Start \/ Permissions
SpecLife == Init /\ [][NextLife]_vars

\* Membership and session start of a single room id.
OneRoom == {"R1"}
NextSeat == Membership(OneRoom) \/ Start
SpecSeat == Init /\ [][NextSeat]_vars

\* Membership, session start and permissions of a single room id.
NextRoom == NextSeat \/ Permissions

\* The payloads of the content events.
Images == {"imgA"}
DrawTypes == {"start", "draw", "stop"}
SlideIndexes == 0..(MaxSlide - 1)
OptIndex == {{}} \cup {{i} : i \in SlideIndexes}
Decks == UNION {[1..n -> Images] : n \in 0..MaxSlide}

\* A session of a single room in which the host can withdraw the drawing
\* permission and members come and go.
Session ==
    \/ \E c \in Conns, u \in Usernames : Step(CreateRoom(c, "R1", u))
    \/ \E c \in Conns, u \in Usernames : Step(JoinRoom(c, "R1", u))
    \/ \E c \in Conns : Step(LeaveRoom(c))
    \/ \E c \in Conns : Step(ToggleParticipantDrawing(c))
    \/ Start

\* Drawing in a session.
NextDraw ==
    \/ Session
    \/ \E c \in Conns, ty \in DrawTypes, idx \in OptIndex : Step(Drawing(c, ty, idx))
SpecDraw == Init /\ [][NextDraw]_vars

\* The shared surface of a single room: drawing, background, slide deck.
Content ==
    \/ \E c \in Conns, ty \in DrawTypes, idx \in OptIndex : Step(Drawing(c, ty, idx))
    \/ \E c \in Conns, img \in Images : Step(BackgroundImageSet(c, img))
    \/ \E c \in Conns : Step(BackgroundCleared(c))
    \/ \E c \in Conns, ty \in {"image", "pdf"}, img \in Images : Step(FileShared(c, ty, img))
    \/ \E c \in Conns, d \in Decks, i \in SlideIndexes : Step(PresentationShared(c, d, i))
    \/ \E c \in Conns, i \in (-1)..MaxSlide : Step(SlideChanged(c, i))

NextDeck == Session \/ Content
SpecDeck == Init /\ [][NextDeck]_vars

\* A join / toggle-ready(true) / leave sequence of one connection, observed:
\* the run reaches any state of the single room, then a connection that was
\* never bound joins the room while its host is seated, and the three events
\* follow one another.
HostSeated(r) == Live(r) /\ Hosts(r) # {}
NeverBound(c) == connectedUsers[c] = NoUser /\ sock[c].roomId = Missing

TripJoin(c, r, u) ==
    /\ trip.stage = "idle"
    /\ NeverBound(c)
    /\ HostSeated(r)
    /\ JoinRoom(c, r, u)
    /\ c \in DOMAIN rooms'[r].participants
    /\ Tick
    /\ trip' = [stage |-> "joined", conn |-> c, rid |-> r,
                participants |-> rooms[r].participants,
                state |-> rooms[r].state,
                settings |-> rooms[r].settings]

TripReady ==
    /\ trip.stage = "joined"
    /\ ToggleReady(trip.conn, TRUE)
    /\ Tick
    /\ trip' = [trip EXCEPT !.stage = "ready"]

TripLeave ==
    /\ trip.stage = "ready"
    /\ LeaveRoom(trip.conn) \/ Disconnect(trip.conn)
    /\ Tick
    /\ trip' = [trip EXCEPT !.stage = "done"]

NextTrip ==
    \/ NextRoom
    \/ \E c \in Conns, u \in Usernames : TripJoin(c, "R1", u)
    \/ TripReady
    \/ TripLeave
SpecTrip == Init /\ [][NextTrip]_vars

\* Chat, upload notice, text and the clearing events.
TextTypes == {Missing, "draw"}
Messages ==
    \/ \E c \in Conns : Step(ChatMessage(c))
    \/ \E c \in Conns : Step(FileUploadStarted(c))
    \/ \E c \in Conns, i \in SlideIndexes : Step(SlideDrawingsCleared(c, i))
    \/ \E c \in Conns, ty \in TextTypes : Step(TextAdded(c, ty))
    \/ \E c \in Conns : Step(ClearCanvas(c))

\* Every event of the router, over a single room id.
NextRouter == NextRoom \/ Content \/ Messages
SpecRouter == Init /\ [][NextRouter]_vars

\* Requests of create-room and join-room with and without their fields.
NextForm ==
    \/ \E c \in Conns, r \in OneRoom \cup {Missing}, u \in Usernames \cup {Missing} :
            Step(CreateRoom(c, r, u))
    \/ \E c \in Conns, r \in OneRoom \cup {Missing}, u \in Usernames \cup {Missing} :
            Step(JoinRoom(c, r, u))
    \/ \E c \in Conns : Step(LeaveRoom(c))
SpecForm == Init /\ [][NextForm]_vars

\* The delayed announcement under the event loop's guarantee that a timer
\* which is due runs.  The callback is no event of a client, so it does not
\* count against the events of the run.
Fire(t) == trip.stage = "idle" /\ SessionStarted(t) /\ UNCHANGED <<trip, steps>>

NextClock ==
    \/ \E c \in Conns, u \in Usernames : Step(CreateRoom(c, "R1", u))
    \/ \E c \in Conns, u \in Usernames : Step(JoinRoom(c, "R1", u))
    \/ \E c \in Conns : Step(LeaveRoom(c))
    \/ \E c \in Conns : Step(StartSession(c))
    \/ \E t \in timers : Fire(t)
SpecClock == Init /\ [][NextClock]_vars /\ WF_vars(\E t \in timers : Fire(t))

\* Two toggles of the same permission sent one after the other by the host
\* of a room, observed: the first records the room's settings, the second
\* follows with no event in between.
TwiceFirst(c, r, kind) ==
    /\ trip.stage = "idle"
    /\ connectedUsers[c] # NoUser
    /\ connectedUsers[c].roomId = r
    /\ Live(r)
    /\ c \in Hosts(r)
    /\ IF kind = "drawing" THEN ToggleParticipantDrawing(c) ELSE ToggleParticipantChat(c)
    /\ Tick
    /\ trip' = [stage |-> "toggled", conn |-> c, rid |-> r, kind |-> kind,
                settings |-> rooms[r].settings]

TwiceSecond ==
    /\ trip.stage = "toggled"
    /\ IF trip.kind = "drawing" THEN ToggleParticipantDrawing(trip.conn)
                                ELSE ToggleParticipantChat(trip.conn)
    /\ Tick
    /\ trip' = [trip EXCEPT !.stage = "twice"]

\* The permission toggles in rooms whose members come and go.
NextToggle ==
    \/ \E c \in Conns, r \in RoomIds, u \in Usernames : Step(CreateRoom(c, r, u))
    \/ \E c \in Conns, r \in RoomIds, u \in Usernames : Step(JoinRoom(c, r, u))
    \/ \E c \in Conns : Step(LeaveRoom(c))
    \/ Permissions
    \/ \E c \in Conns, r \in RoomIds, kind \in {"drawing", "chat"} : TwiceFirst(c, r, kind)
    \/ TwiceSecond
SpecToggle == Init /\ [][NextToggle]_vars

\* Chat in rooms whose members come and go, whose host can withdraw the
\* chat permission and start the session.
NextChat ==
    \/ \E c \in Conns, r \in RoomIds, u \in Usernames : Step(CreateRoom(c, r, u))
    \/ \E c \in Conns, r \in RoomIds, u \in Usernames : Step(JoinRoom(c, r, u))
    \/ \E c \in Conns : Step(LeaveRoom(c))
    \/ \E c \in Conns : Step(ToggleParticipantChat(c))
    \/ Start
    \/ \E c \in Conns : Step(ChatMessage(c))
SpecChat == Init /\ [][NextChat]_vars

\* Readiness in rooms whose members come and go.
NextReady ==
    \/ \E c \in Conns, r \in RoomIds, u \in Usernames : Step(CreateRoom(c, r, u))
    \/ \E c \in Conns, r \in RoomIds, u \in Usernames : Step(JoinRoom(c, r, u))
    \/ \E c \in Conns, b \in BOOLEAN : Step(ToggleReady(c, b))
    \/ \E c \in Conns : Step(LeaveRoom(c))
    \/ \E c \in Conns : Step(Disconnect(c))
SpecReady == Init /\ [][NextReady]_vars

\* Rooms whose members come and go and disconnect, with the idle reaper.
\* The sweep is no event of a client, so it does not count against the
\* events of the run; the interval timer keeps firing, and a room that
\* stays is in the end older than 24 hours at a sweep.
Sweep(old) == trip.stage = "idle" /\ Reaper(old) /\ UNCHANGED <<trip, steps>>

NextReap ==
    \/ \E c \in Conns, r \in RoomIds, u \in Usernames : Step(CreateRoom(c, r, u))
    \/ \E c \in Conns, r \in RoomIds, u \in Usernames : Step(JoinRoom(c, r, u))
    \/ \E c \in Conns : Step(LeaveRoom(c))
    \/ \E c \in Conns : Step(Disconnect(c))
    \/ \E old \in SUBSET RoomIds : Sweep(old)
SpecReap == Init /\ [][NextReap]_vars /\ WF_vars(Sweep(RoomIds))

\* ================================================================ claims

\* ---- C1 ----
\* C1: in every reachable state every room of the registry has exactly one
\* directory entry with role host.
C1_ExactlyOneHost ==
    \A r \in RoomIds : Live(r) => Cardinality(Hosts(r)) = 1

\* ---- C2 ----
\* What a rejected create-room leaves alone.
C2_NothingChanged == UNCHANGED <<rooms, connectedUsers, sock, timers>>

\* C2 as stated: a create-room whose id maps to a live room replies
\* room-exists to the sender only and changes nothing, whatever else the
\* request holds.
C2_CollisionAlwaysRoomExists ==
    [][\A c \in Conns, r \in RoomIds, u \in Usernames \cup {Missing} :
        (CreateRoom(c, r, u) /\ Live(r))
            => (out' = {<<c, "room-exists">>} /\ C2_NothingChanged)]_vars

\* C2 amended: a create-room that carries a display name and whose id maps to
\* a live room replies room-exists to the sender only; one without a display
\* name replies error to the sender only; either way the registry, the
\* existing room, every binding and every group stay as they were.
C2_CollisionRejected ==
    [][\A c \in Conns, r \in RoomIds, u \in Usernames \cup {Missing} :
        (CreateRoom(c, r, u) /\ Live(r))
            => /\ C2_NothingChanged
               /\ out' = {<<c, IF u = Missing THEN "error" ELSE "room-exists">>}]_vars

C2_Witness ==
    \E c \in Conns, r \in RoomIds :
        /\ out = {<<c, "room-exists">>}
        /\ Live(r)
        /\ rooms[r].host # c
        /\ connectedUsers[c] = NoUser

\* ---- C3 ----
C3_WithinCap ==
    \A r \in RoomIds :
        Live(r) => Cardinality(Members(r)) <= rooms[r].settings.maxParticipants

C3_FullJoinRejected ==
    \A c \in Conns, r \in RoomIds, u \in Usernames \cup {Missing} :
        (/\ JoinRoom(c, r, u)
         /\ Live(r)
         /\ Cardinality(Members(r)) = rooms[r].settings.maxParticipants)
            => (out' = {<<c, "room-full">>}
                /\ UNCHANGED <<rooms, connectedUsers, sock, timers>>)

\* C3: a directory never holds more entries than maxParticipants, and a
\* join-room that finds the directory at the cap replies room-full to the
\* sender only and changes no directory, binding or group.
C3_CapRespected == []C3_WithinCap /\ [][C3_FullJoinRejected]_vars

C3_Witness ==
    \E c \in Conns, r \in RoomIds :
        /\ out = {<<c, "room-full">>}
        /\ Live(r)
        /\ Cardinality(Members(r)) = rooms[r].settings.maxParticipants
        /\ c \notin Members(r)

\* ---- C5 ----
\* c is seated in the directory of r with role host.
DirectoryHost(c, r) ==
    Live(r) /\ c \in Members(r) /\ rooms[r].participants[c].role = "host"

\* The step changed the lifecycle state or the settings of room r.
C5_Controlled(r) ==
    /\ Live(r)
    /\ rooms'[r] # NoRoom
    /\ \/ rooms'[r].state # rooms[r].state
       \/ rooms'[r].settings # rooms[r].settings

\* C5: start-session, toggle-participant-drawing, toggle-participant-chat and
\* kick-participant take effect on a room only if their sender is, when the
\* event is handled, seated in that room's directory with role host.
C5_HostOnlyControls ==
    [][\A c \in Conns :
        /\ (StartSession(c) \/ ToggleParticipantDrawing(c) \/ ToggleParticipantChat(c))
              => \A r \in RoomIds : C5_Controlled(r) => DirectoryHost(c, r)
        /\ \A t \in Conns :
              (KickParticipant(c, t) /\ <<t, "kicked">> \in out')
                  => \E r \in RoomIds : sock[c].roomId = r /\ DirectoryHost(c, r)]_vars

\* ---- C6 ----
\* C6: when the connection that created a live room runs the leave path, the
\* same step removes that room from the registry and sends room-ended to the
\* members that remain connected.
C6_CreatorDepartureEndsRoom ==
    [][\A c \in Conns :
        (LeaveRoom(c) \/ Disconnect(c))
            => \A r \in RoomIds :
                  (Live(r) /\ rooms[r].host = c)
                      => /\ rooms'[r] = NoRoom
                         /\ Emit({m \in Members(r) \ {c} : Connected(m)}, "room-ended")
                                \subseteq out']_vars

\* ---- C9 ----
\* C9: after join-room, toggle-ready(true) and leave-room or disconnect of a
\* new connection, the room is still in the registry with the directory, the
\* lifecycle state and the settings it had before the join.
C9_RoundTrip ==
    trip.stage = "done"
        => /\ Live(trip.rid)
           /\ rooms[trip.rid].participants = trip.participants
           /\ rooms[trip.rid].state = trip.state
           /\ rooms[trip.rid].settings = trip.settings

C9_Witness ==
    /\ trip.stage = "done"
    /\ Live(trip.rid)
    /\ Members(trip.rid) = {rooms[trip.rid].host}
    /\ sock[trip.conn].leaves = "once"

\* ---- C10 ----
\* The leave path runs for c in this step.
C10_LeavePath(c) == LeaveRoom(c) \/ Disconnect(c)

\* C10: a run of the leave path for a connection whose leave path already ran
\* since it last created or joined a room removes no directory entry, deletes
\* no room and emits nothing; the first run removes the connection's entry,
\* and no other entry, from the directory of the room it is bound to.
C10_SecondLeaveIsNoOp ==
    [][\A c \in Conns :
        /\ (C10_LeavePath(c) /\ sock[c].leaves # "none")
              => (rooms' = rooms /\ connectedUsers' = connectedUsers /\ out' = {})
        /\ (C10_LeavePath(c) /\ sock[c].leaves = "none")
              => \A r \in RoomIds :
                    (Live(r) /\ rooms'[r] # NoRoom)
                        => IF connectedUsers[c].roomId = r
                           THEN rooms'[r].participants = MapDelete(rooms[r].participants, c)
                           ELSE rooms'[r] = rooms[r]]_vars

C10_Witness ==
    \E c \in Conns, r \in RoomIds :
        /\ sock[c].leaves = "again"
        /\ sock[c].status = "closed"
        /\ sock[c].roomId = r
        /\ sock[c].role = "participant"
        /\ Live(r)
        /\ rooms[r].host \in Members(r)
        /\ c \notin Members(r)

\* ---- C4 ----
\* The conditions C4 names, for sender c and room r.
C4_Permitted(c, r) ==
    /\ Live(r)
    /\ rooms[r].state = ACTIVE
    /\ c \in Members(r)
    /\ (rooms[r].participants[c].role = "host" \/ rooms[r].settings.participantsCanDraw)

\* The step changed a room or sent a message, as no step that leaves all of
\* this alone can break C4; a drawing step touches no binding, socket or timer.
C4_Visible ==
    /\ UNCHANGED <<connectedUsers, sock, timers>>
    /\ (rooms' # rooms \/ out' # {})

\* C4: a drawing event changes a log of a room only when the room is Active
\* and the sender is seated in its directory and is host or participantsCanDraw
\* is true, a record is appended only by an event of type draw, and a drawing
\* event of a sender for which no room meets these conditions changes no room
\* and is broadcast to nobody.
C4_DrawingGated ==
    [][\A c \in Conns, ty \in DrawTypes, idx \in OptIndex :
        (C4_Visible /\ Drawing(c, ty, idx))
            => /\ \A r \in RoomIds :
                    (Live(r) /\ rooms'[r] # rooms[r])
                        => /\ C4_Permitted(c, r)
                           /\ Len(rooms'[r].drawings) > Len(rooms[r].drawings) => ty = "draw"
               /\ (\A r \in RoomIds : ~C4_Permitted(c, r) \/ sock[c].roomId # r)
                        => (rooms' = rooms /\ out' = {})]_vars

C4_Witness ==
    \E c, m \in Conns, r \in RoomIds :
        /\ Live(r)
        /\ <<m, "drawing">> \in out
        /\ Len(rooms[r].drawings) > 0
        /\ rooms[r].drawings[Len(rooms[r].drawings)].userId = c
        /\ c \in Members(r)
        /\ rooms[r].participants[c].role = "participant"
        /\ SlideKey(0) \in DOMAIN rooms[r].slideDrawings

\* ---- C7 ----
\* The step applied a content replacement to the room c is bound to.
C7_Replaced(c) ==
    /\ sock[c].roomId # Missing
    /\ Live(sock[c].roomId)
    /\ \/ \E img \in Images : BackgroundImageSet(c, img)
       \/ \E img \in Images : FileShared(c, "image", img)
       \/ \E d \in Decks, i \in SlideIndexes : PresentationShared(c, d, i)

\* C7: after background-image-set, file-shared with type image or
\* presentation-shared is applied to a room, the room's current slide index
\* is 0 and every per-slide drawing log of the room is empty.
C7_ReplacementResets ==
    [][\A c \in Conns :
        C7_Replaced(c)
            => /\ rooms'[sock[c].roomId].currentSlide = 0
               /\ \A k \in DOMAIN rooms'[sock[c].roomId].slideDrawings :
                     rooms'[sock[c].roomId].slideDrawings[k] = <<>>]_vars

\* ---- C8 ----
\* C8: in every reachable state each live room's currentSlide is 0 when its
\* deck is empty and a valid index into the deck otherwise.
C8_CurrentSlideValid ==
    \A r \in RoomIds :
        Live(r) =>
            IF rooms[r].slides = <<>>
            THEN rooms[r].currentSlide = 0
            ELSE rooms[r].currentSlide \in 0..(Len(rooms[r].slides) - 1)

\* ---------------------------------------------------------------------
\* A connection that is bound to no room and stands in no room's directory:
\* it never joined, or the leave path has run for it.
C11_Outside(c) ==
    /\ connectedUsers[c] = NoUser
    /\ \A r \in RoomIds : Live(r) => c \notin Members(r)

\* The step handles an event of c other than create-room and join-room.
C11_OtherEvent(c) ==
    \/ \E b \in BOOLEAN : ToggleReady(c, b)
    \/ StartSession(c)
    \/ ToggleParticipantDrawing(c)
    \/ ToggleParticipantChat(c)
    \/ \E t \in Conns : KickParticipant(c, t)
    \/ LeaveRoom(c)
    \/ ChatMessage(c)
    \/ FileUploadStarted(c)
    \/ ClearCanvas(c)
    \/ \E ty \in TextTypes : TextAdded(c, ty)
    \/ \E i \in SlideIndexes : SlideDrawingsCleared(c, i)
    \/ \E i \in (-1)..MaxSlide : SlideChanged(c, i)
    \/ \E img \in Images : BackgroundImageSet(c, img)
    \/ BackgroundCleared(c)
    \/ \E ty \in {"image", "pdf"}, img \in Images : FileShared(c, ty, img)
    \/ \E d \in Decks, i \in SlideIndexes : PresentationShared(c, d, i)
    \/ \E ty \in DrawTypes, idx \in OptIndex : Drawing(c, ty, idx)

\* C11: an event other than create-room and join-room that comes from a
\* connection which is a member of no room changes no room and sends no
\* message.
C11_OutsiderIgnored ==
    [][\A c \in Conns :
          C11_Outside(c) /\ (rooms' # rooms \/ out' # {}) => ~C11_OtherEvent(c)]_vars

\* ---------------------------------------------------------------------
\* The connections the step sends the message called name to.
C12_Sent(name) == {m \in Conns : <<m, name>> \in out'}

\* The connected members of room r after the step.
C12_MembersAfter(r) ==
    {m \in DOMAIN rooms'[r].participants : sock'[m].status = "connected"}

\* The message went to all members of the sender's room, the sender included.
C12_ToAll(c, name) ==
    C12_Sent(name) # {} =>
        \E r \in RoomIds : /\ rooms'[r] # NoRoom
                           /\ c \in C12_MembersAfter(r)
                           /\ C12_Sent(name) = C12_MembersAfter(r)

\* The message went to all members of the sender's room but the sender.
C12_ToOthers(c, name) ==
    C12_Sent(name) # {} =>
        \E r \in RoomIds : /\ rooms'[r] # NoRoom
                           /\ c \in C12_MembersAfter(r)
                           /\ C12_Sent(name) = C12_MembersAfter(r) \ {c}

\* C12: an accepted chat-message, clear-canvas, permission toggle,
\* start-session, join-room or toggle-ready reaches exactly the members of
\* the room, sender included; an accepted drawing, text-added, background,
\* file, presentation, slide or upload event reaches exactly the members
\* other than the sender.
C12_RecipientSets ==
    [][out' # {} => \A c \in Conns :
        /\ ChatMessage(c) => C12_ToAll(c, "chat-message")
        /\ ClearCanvas(c) => C12_ToAll(c, "clear-canvas")
        /\ ToggleParticipantDrawing(c) \/ ToggleParticipantChat(c)
                => C12_ToAll(c, "permissions-updated")
        /\ StartSession(c) => C12_ToAll(c, "session-starting")
        /\ (\/ \E r \in RoomIds, u \in Usernames : JoinRoom(c, r, u)
            \/ \E b \in BOOLEAN : ToggleReady(c, b))
                => C12_ToAll(c, "lobby-updated")
        /\ (\E ty \in DrawTypes, idx \in OptIndex : Drawing(c, ty, idx))
                => C12_ToOthers(c, "drawing")
        /\ (\E ty \in TextTypes : TextAdded(c, ty)) => C12_ToOthers(c, "text-added")
        /\ (\E img \in Images : BackgroundImageSet(c, img))
                => C12_ToOthers(c, "background-image-set")
        /\ BackgroundCleared(c) => C12_ToOthers(c, "background-cleared")
        /\ (\E ty \in {"image", "pdf"}, img \in Images : FileShared(c, ty, img))
                => C12_ToOthers(c, "file-shared")
        /\ (\E d \in Decks, i \in SlideIndexes : PresentationShared(c, d, i))
                => C12_ToOthers(c, "presentation-shared")
        /\ (\E i \in (-1)..MaxSlide : SlideChanged(c, i))
                => C12_ToOthers(c, "slide-changed")
        /\ (\E i \in SlideIndexes : SlideDrawingsCleared(c, i))
                => C12_ToOthers(c, "slide-drawings-cleared")
        /\ FileUploadStarted(c) => C12_ToOthers(c, "file-upload-started")]_vars

\* ---------------------------------------------------------------------
\* The step handles a create-room or a join-room of c that lacks the room
\* id or the display name.
C13_Incomplete(c) ==
    \E r \in RoomIds \cup {Missing}, u \in Usernames \cup {Missing} :
        /\ r = Missing \/ u = Missing
        /\ CreateRoom(c, r, u) \/ JoinRoom(c, r, u)

\* C13: a create-room or join-room without room id or display name is
\* answered with error to the sender alone and changes no room, no binding
\* and no connection.
C13_IncompleteRejected ==
    [][\A c \in Conns :
          C13_Incomplete(c) => /\ out' = {<<c, "error">>}
                               /\ UNCHANGED <<rooms, connectedUsers, sock, timers>>]_vars

\* ---------------------------------------------------------------------
\* C14: the lifecycle state of a live room changes only from Lobby to
\* Active, and only in a step that handles a start-session sent by a host
\* of that room's directory while the room is in Lobby; a start-session
\* that reaches an Active room changes nothing and sends nothing.
C14_OnlyHostStarts ==
    [][/\ \A r \in RoomIds :
            (Live(r) /\ rooms'[r] # NoRoom /\ rooms'[r].state # rooms[r].state)
                => /\ rooms[r].state = LOBBY
                   /\ rooms'[r].state = ACTIVE
                   /\ \E c \in Hosts(r) : StartSession(c)
       /\ \A c \in Conns :
            (/\ StartSession(c)
             /\ sock[c].roomId # Missing
             /\ Live(sock[c].roomId)
             /\ rooms[sock[c].roomId].state = ACTIVE)
                => rooms' = rooms /\ out' = {}]_vars

\* ---------------------------------------------------------------------
\* The announcement with timer number k is pending.
C15_Pending(k) == \E t \in timers : t.id = k

\* An announcement becomes pending only in the step of an accepted
\* start-session, which sends session-starting to every member of the room
\* and no session-started.
C15_StartAnnounces(k) ==
    (~C15_Pending(k) /\ C15_Pending(k)') =>
        \E c \in Conns :
            /\ StartSession(c)
            /\ \A m \in Members(sock[c].roomId) :
                    Connected(m) => <<m, "session-starting">> \in out'
            /\ \A msg \in out' : msg[2] = "session-starting"

\* A pending announcement goes away only by being sent.
C15_NeverCancelled(k) ==
    (C15_Pending(k) /\ ~C15_Pending(k)') =>
        \E t \in timers : t.id = k /\ SessionStarted(t)

\* Whenever it is sent, the announcement carries the state Active.
C15_CarriesActive == \A t \in timers : StartedData(t).roomState = ACTIVE

\* C15: an accepted start-session sends session-starting to the room in its
\* own step; its one delayed announcement is never cancelled, carries the
\* state Active, and is eventually sent in a later step, also when the room
\* was deleted meanwhile.
C15_AnnouncedOnce ==
    /\ []C15_CarriesActive
    /\ [][\A k \in 1..MaxTimers : C15_StartAnnounces(k) /\ C15_NeverCancelled(k)]_vars
    /\ \A k \in 1..MaxTimers : C15_Pending(k) ~> ~C15_Pending(k)

\* session-started has just been sent to some connection although the room
\* is no longer in the registry.
C15_Witness ==
    /\ rooms["R1"] = NoRoom
    /\ \E msg \in out : msg[2] = "session-started" /\ msg[3].roomState = ACTIVE

\* ---------------------------------------------------------------------
\* Room r is the room connection c is bound to, and c is in its directory.
InRoom(c, r) ==
    /\ connectedUsers[c] # NoUser
    /\ connectedUsers[c].roomId = r
    /\ Live(r)
    /\ c \in Members(r)

\* c is in room r with the role host.
HostIn(c, r) == InRoom(c, r) /\ c \in Hosts(r)

\* Every connected member of room r is sent the message called name.
ReachesAll(r, name) ==
    \A m \in Members(r) : Connected(m) => <<m, name>> \in out'

\* Every connected member of room r but c is sent the message called name,
\* and c is not.
ReachesOthers(r, c, name) ==
    /\ \A m \in Members(r) \ {c} : Connected(m) => <<m, name>> \in out'
    /\ <<c, name>> \notin out'

\* The record of slide key k in the per-slide logs sd, empty when sd has none.
SlideLog(sd, k) == IF k \in DOMAIN sd THEN sd[k] ELSE <<>>

\* The step leaves every room but r as it is, and of room r everything but
\* its flat log and its per-slide logs.
OnlyLogsOf(r) ==
    /\ \A q \in RoomIds \ {r} : rooms'[q] = rooms[q]
    /\ rooms'[r] # NoRoom
    /\ [rooms'[r] EXCEPT !.drawings = <<>>, !.slideDrawings = EmptyMap]
        = [rooms[r] EXCEPT !.drawings = <<>>, !.slideDrawings = EmptyMap]

\* clear-canvas of the room did what the claim says it does.
C16_Applied(c, r) ==
    /\ OnlyLogsOf(r)
    /\ rooms'[r].drawings = <<>>
    /\ SlideLog(rooms'[r].slideDrawings, SlideKey(rooms[r].currentSlide)) = <<>>
    /\ \A i \in (-1)..MaxSlide :
            i # rooms[r].currentSlide =>
                SlideLog(rooms'[r].slideDrawings, SlideKey(i))
                    = SlideLog(rooms[r].slideDrawings, SlideKey(i))
    /\ ReachesAll(r, "clear-canvas")
    /\ <<c, "clear-canvas">> \in out'

\* C16: clear-canvas is applied exactly when the sender is the host of its
\* room or the room's hostCanClear is false; applied, it empties the flat
\* log and the current slide's log, keeps every other slide's log and
\* reaches all members; denied, it changes nothing and sends nothing.
C16_ClearCanvasGated ==
    [][\A c \in Conns :
          ClearCanvas(c) =>
            IF \E r \in RoomIds :
                    InRoom(c, r) /\ (HostIn(c, r) \/ ~rooms[r].settings.hostCanClear)
            THEN \E r \in RoomIds : InRoom(c, r) /\ C16_Applied(c, r)
            ELSE rooms' = rooms /\ out' = {}]_vars

\* ---------------------------------------------------------------------
\* c may draw in room r: r is Active, c is in it, and c is its host or the
\* participants may draw.
C17_Permitted(c, r) ==
    /\ InRoom(c, r)
    /\ rooms[r].state = ACTIVE
    /\ HostIn(c, r) \/ rooms[r].settings.participantsCanDraw

\* The log after the step is the log before it plus one record of c.
C17_OneMore(before, after, c) ==
    /\ Len(after) = Len(before) + 1
    /\ SubSeq(after, 1, Len(before)) = before
    /\ after[Len(after)].userId = c
    /\ after[Len(after)].type = "draw"

\* What a drawing event of a permitted sender does to room r.
C17_Effect(c, r, type, idx) ==
    /\ OnlyLogsOf(r)
    /\ ReachesOthers(r, c, "drawing")
    /\ IF type = "draw"
       THEN C17_OneMore(rooms[r].drawings, rooms'[r].drawings, c)
       ELSE rooms'[r].drawings = rooms[r].drawings
    /\ \A i \in SlideIndexes :
            IF type = "draw" /\ i \in idx
            THEN C17_OneMore(SlideLog(rooms[r].slideDrawings, SlideKey(i)),
                             SlideLog(rooms'[r].slideDrawings, SlideKey(i)), c)
            ELSE SlideLog(rooms'[r].slideDrawings, SlideKey(i))
                    = SlideLog(rooms[r].slideDrawings, SlideKey(i))

\* C17: a drawing event of type start or stop from a permitted sender in
\* an Active room is relayed to the other members and appends no record to
\* any log; an event of type draw is relayed too and appends one record to
\* the flat log and, when it names a slide, one to the log of that slide
\* and to no other slide's log.
C17_OnlyDrawAppends ==
    [][UNCHANGED <<connectedUsers, sock, timers>> =>
        \A c \in Conns, r \in RoomIds :
          C17_Permitted(c, r) =>
            \A ty \in DrawTypes, idx \in OptIndex :
                Drawing(c, ty, idx) => C17_Effect(c, r, ty, idx)]_vars

\* A start or stop that names a slide has just been relayed: the room's
\* flat log is empty and the slide has an empty log.
C17_Witness ==
    /\ Live("R1")
    /\ rooms["R1"].state = ACTIVE
    /\ rooms["R1"].drawings = <<>>
    /\ \E m \in Members("R1") : <<m, "drawing">> \in out
    /\ \E i \in SlideIndexes : SlideKey(i) \in DOMAIN rooms["R1"].slideDrawings

\* ---------------------------------------------------------------------
\* C18: a kick-participant sent by the host of a room that names a
\* connection which is not in that room's directory has no effect: nothing
\* is sent, no connection is terminated and no room changes.
C18_KickOnlyMembers ==
    [][\A c, t \in Conns, r \in RoomIds :
          (HostIn(c, r) /\ t \notin Members(r) /\ KickParticipant(c, t))
              => /\ out' = {}
                 /\ UNCHANGED <<rooms, connectedUsers, sock, timers>>]_vars

\* ---------------------------------------------------------------------
\* The step changes of room r nothing but the setting called flag, which it
\* negates, and changes no other room, binding, connection or timer.
C19_Negates(r, flag) ==
    /\ rooms'[r] # NoRoom
    /\ rooms'[r].settings[flag] = ~rooms[r].settings[flag]
    /\ \A f \in DOMAIN rooms[r].settings \ {flag} :
            rooms'[r].settings[f] = rooms[r].settings[f]
    /\ DOMAIN rooms'[r].settings = DOMAIN rooms[r].settings
    /\ [rooms'[r] EXCEPT !.settings = rooms[r].settings] = rooms[r]
    /\ \A q \in RoomIds \ {r} : rooms'[q] = rooms[q]
    /\ UNCHANGED <<connectedUsers, sock, timers>>

\* A toggle of the host of room r negates its flag, changes nothing else
\* and sends the settings to every member, the host included.
C19_ToggleFrame ==
    \A c \in Conns, r \in RoomIds :
        HostIn(c, r) =>
            /\ ToggleParticipantDrawing(c) =>
                    /\ C19_Negates(r, "participantsCanDraw")
                    /\ ReachesAll(r, "permissions-updated")
                    /\ <<c, "permissions-updated">> \in out'
            /\ ToggleParticipantChat(c) =>
                    /\ C19_Negates(r, "participantsCanChat")
                    /\ ReachesAll(r, "permissions-updated")
                    /\ <<c, "permissions-updated">> \in out'

\* After two identical toggles in a row the room has the settings it had
\* before the first.
C19_TwiceRestores ==
    trip.stage = "twice" =>
        Live(trip.rid) /\ rooms[trip.rid].settings = trip.settings

\* C19: a permission toggle sent by the host negates its flag, leaves every
\* other setting, the directory, the lifecycle state and the artifacts as
\* they are, and sends the settings to all members including the host; two
\* identical toggles in a row restore the settings.
C19_ToggleNegates == []C19_TwiceRestores /\ [][C19_ToggleFrame]_vars

\* The host of a room with a second member has toggled the same permission
\* twice in a row.
C19_Witness ==
    /\ trip.stage = "twice"
    /\ HostIn(trip.conn, trip.rid)
    /\ Cardinality(Members(trip.rid)) > 1
    /\ <<trip.conn, "permissions-updated">> \in out

\* ---------------------------------------------------------------------
\* c may chat in room r: c is in it and is its host or the participants
\* may chat.
C20_MayChat(c, r) ==
    /\ InRoom(c, r)
    /\ HostIn(c, r) \/ rooms[r].settings.participantsCanChat

\* C20: a chat-message is broadcast to the room exactly when the sender is
\* in the room's directory and is host or participantsCanChat is true,
\* whatever the lifecycle state; accepted or denied, it changes no room, no
\* binding and no connection.
C20_ChatGated ==
    [][\A c \in Conns :
          ChatMessage(c) =>
            /\ UNCHANGED <<rooms, connectedUsers, sock, timers>>
            /\ IF \E r \in RoomIds : C20_MayChat(c, r)
               THEN \E r \in RoomIds : /\ C20_MayChat(c, r)
                                       /\ ReachesAll(r, "chat-message")
                                       /\ <<c, "chat-message">> \in out'
               ELSE out' = {}]_vars

\* A chat message has just been broadcast to the two or more members of a
\* room that is in Lobby.
C20_Witness ==
    \E r \in RoomIds :
        /\ Live(r)
        /\ rooms[r].state = LOBBY
        /\ Cardinality(Members(r)) > 1
        /\ \A m \in Members(r) : <<m, "chat-message">> \in out

\* ---------------------------------------------------------------------
\* The step changes of the rooms at most the readiness flag of c's entries.
C21_OnlyOwnFlag(c) ==
    \A r \in RoomIds :
        IF ~Live(r) THEN rooms'[r] = rooms[r]
        ELSE /\ rooms'[r] # NoRoom
             /\ [rooms'[r] EXCEPT !.participants = rooms[r].participants] = rooms[r]
             /\ DOMAIN rooms'[r].participants = Members(r)
             /\ \A m \in Members(r) \ {c} :
                    rooms'[r].participants[m] = rooms[r].participants[m]
             /\ c \in Members(r) =>
                    [rooms'[r].participants[c] EXCEPT !.ready = rooms[r].participants[c].ready]
                        = rooms[r].participants[c]

\* A toggle-ready changes nothing but the sender's own readiness, and one
\* sent by the host of a room is dropped.
C21_ToggleFrame ==
    \A c \in Conns :
        (\E b \in BOOLEAN : ToggleReady(c, b)) =>
            /\ C21_OnlyOwnFlag(c)
            /\ UNCHANGED <<connectedUsers, sock, timers>>
            /\ (\E r \in RoomIds : HostIn(c, r)) => (rooms' = rooms /\ out' = {})

\* Every directory entry with role host has readiness true.
C21_HostReady ==
    \A r \in RoomIds :
        Live(r) => \A m \in Hosts(r) : rooms[r].participants[m].ready

\* C21: toggle-ready changes only the sender's own readiness flag, a
\* toggle-ready of the host is dropped, and the host's entry always has
\* readiness true.
C21_ReadinessOwn == []C21_HostReady /\ [][C21_ToggleFrame]_vars

\* A participant sitting next to the host has just made itself ready.
C21_Witness ==
    \E r \in RoomIds, h, m \in Conns :
        /\ HostIn(h, r)
        /\ InRoom(m, r)
        /\ rooms[r].participants[m].role = "participant"
        /\ rooms[r].participants[m].ready
        /\ <<h, "lobby-updated">> \in out
        /\ <<m, "lobby-updated">> \in out

\* ---------------------------------------------------------------------
\* The connections the step sends session-started to.
C22_Announced == {msg[1] : msg \in {x \in out' : x[2] = "session-started"}}

\* C22: the delayed session-started of a room goes to the group of that
\* room and to no other connection, and lists the directory that room has
\* when the timer fires, whatever the host and the members did meanwhile.
C22_AnnouncesOwnRoom ==
    [][\A t \in timers :
          SessionStarted(t) =>
            /\ C22_Announced = ioTo(sock, t.rid)
            /\ \A msg \in out' :
                    msg[3].participants = IF t.dead THEN t.parts ELSE Members(t.rid)]_vars

\* ---------------------------------------------------------------------
\* The messages the handlers send with io.to or socket.to.
C23_Broadcasts ==
    {"lobby-updated", "session-starting", "session-started", "drawing",
     "chat-message", "file-upload-started", "background-image-set",
     "background-cleared", "file-shared", "presentation-shared", "slide-changed",
     "slide-drawings-cleared", "text-added", "clear-canvas", "permissions-updated",
     "room-ended", "user-left", "participant-left-session"}

\* m stands in the directory of a room when the step starts or when it ends.
C23_InADirectory(m) ==
    \E r \in RoomIds :
        \/ Live(r) /\ m \in Members(r)
        \/ rooms'[r] # NoRoom /\ m \in DOMAIN rooms'[r].participants

\* C23: a broadcast reaches only connections that are in a room's directory
\* when it is sent; a connection that left via leave-room, or that was in an
\* earlier room of the same id, receives none.
C23_OnlyMembersReached ==
    [][\A msg \in out' : msg[2] \in C23_Broadcasts => C23_InADirectory(msg[1])]_vars

\* ---------------------------------------------------------------------
\* C24: a connection stands in the directory of at most one live room, and
\* in the directory of room r only while it is connected and the binding
\* table maps it to r.
C24_NoDanglingEntry ==
    \A c \in Conns, r \in RoomIds :
        (Live(r) /\ c \in Members(r)) =>
            /\ Connected(c)
            /\ connectedUsers[c] # NoUser
            /\ connectedUsers[c].roomId = r
            /\ \A q \in RoomIds \ {r} : Live(q) => c \notin Members(q)

\* ---------------------------------------------------------------------
\* Every connection that ever created or joined a room has disconnected.
C25_AllGone == \A c \in Conns : sock[c].roomId # Missing => ~Connected(c)

\* The registry holds no room.
C25_Empty == \A r \in RoomIds : ~Live(r)

\* C25: once every connection that ever created or joined a room has
\* disconnected, the registry eventually holds no room.
C25_NoRoomOutlivesMembers == C25_AllGone ~> C25_Empty

\* ---------------------------------------------------------------------
\* C26: a room in Lobby has no record in its flat drawing log and none in
\* any of its per-slide drawing logs.
C26_LobbyLogsEmpty ==
    \A r \in RoomIds :
        (Live(r) /\ rooms[r].state = LOBBY) =>
            /\ rooms[r].drawings = <<>>
            /\ \A k \in DOMAIN rooms[r].slideDrawings : rooms[r].slideDrawings[k] = <<>>

\* ---------------------------------------------------------------------
\* The log after the step still begins with every record it had before.
C27_Kept(before, after) ==
    /\ Len(after) >= Len(before)
    /\ SubSeq(after, 1, Len(before)) = before

\* Room r, which stays in the registry, loses no record of its logs.
C27_LogsKept(r) ==
    /\ C27_Kept(rooms[r].drawings, rooms'[r].drawings)
    /\ \A k \in DOMAIN rooms[r].slideDrawings :
            C27_Kept(rooms[r].slideDrawings[k], SlideLog(rooms'[r].slideDrawings, k))

\* C27: while hostCanClear of a room is true, an event of a connection that
\* is not a host in the room's directory removes no record from the room's
\* flat log or from any of its per-slide logs.
C27_OnlyHostRemoves ==
    [][\A r \in RoomIds :
          (Live(r) /\ rooms'[r] # NoRoom /\ rooms[r].settings.hostCanClear
                   /\ ~C27_LogsKept(r))
              => \A c \in Conns \ Hosts(r) : ~C11_OtherEvent(c)]_vars
====
